---- MODULE Spec2Model ----
(***************************************************************************)
(* The grid simulation engine of MeatTemp/meat_temp.py and                 *)
(* ThawMaster/thaw_master.py: sim_temp_change (one trajectory and its      *)
(* threshold scan) and perform_simulation (meshgrid, the worker pool's     *)
(* starmap, and the loop that writes the flat results into time_grid).     *)
(*                                                                         *)
(* Temperatures are integers in units of 0.01 degree C, times are whole    *)
(* seconds.  Arrays are 0-based functions, as in the source.               *)
(***************************************************************************)
EXTENDS Integers, Sequences, FiniteSets, TLC

\* ---------------------------------------------------------------- bounds
\* Longest coordinate sequence (the source's main() uses 100 points).
MaxLen == 2
\* Largest multiprocessing.cpu_count() considered.
MaxCpu == 3
\* Samples per trajectory (SIM_STEPS is 1000 resp. 10000 in the source).
SimSteps == 4
\* Most units of work that raise or whose worker dies during one sweep.
MaxFaults == 1

\* Candidate temperatures: 18.00, 19.96 and 20.00 degrees C.
Temps == {1800, 1996, 2000}

Variants == {"MeatTemp", "ThawMaster"}

\* ------------------------------------------------------ program constants
\* meat_temp.py: ROOM_TEMP = 20.0
ROOM_TEMP == 2000
\* meat_temp.py: SIM_LEN = 10000.0
MeatTemp_SIM_LEN == 10000
\* thaw_master.py: SIM_LEN = 250000.0
ThawMaster_SIM_LEN == 250000
\* meat_temp.py: abs(T[i] - room_temp) < 1
MeatTemp_TOL == 100
\* thaw_master.py: abs(T[i] - room_temp) <= 0.01
ThawMaster_TOL == 1
\* The fraction of the distance to the ambient temperature that is left
\* after one sample interval, exp(-k_value * dt), as DecayNum / DecayDen.
DecayNum == 1
DecayDen == 2

\* ------------------------------------------------------------- values
\* A time_to_cool value: a float, Python's None, or the float NaN.
Time(x) == [kind |-> "float", val |-> x]
None == [kind |-> "None", val |-> 0]
NaN == [kind |-> "nan", val |-> 0]

Abs(x) == IF x < 0 THEN -x ELSE x

len(a) == Cardinality(DOMAIN a)

\* np.linspace(0, stop, num)[i]
linspace(stop, num, i) == (i * stop) \div (num - 1)

SIM_LEN(v) == IF v = "MeatTemp" THEN MeatTemp_SIM_LEN ELSE ThawMaster_SIM_LEN

\* t = np.linspace(0, SIM_LEN, SIM_STEPS)
t(v, i) == linspace(SIM_LEN(v), SimSteps, i)

\* model(T, t, k, room_temp) = -k * (T - room_temp), integrated over one
\* sample interval: the distance to room_temp shrinks by exp(-k * dt) and
\* keeps its sign.
model(T, room_temp) ==
    LET d == T - room_temp
    IN IF d >= 0 THEN room_temp + ((d * DecayNum) \div DecayDen)
       ELSE room_temp - (((-d) * DecayNum) \div DecayDen)

\* odeint(model, init_temp, t, args=(k_value, room_temp))[i]: the first
\* sample is the initial value itself.
RECURSIVE odeint(_, _, _)
odeint(init_temp, room_temp, i) ==
    IF i = 0 THEN init_temp
    ELSE model(odeint(init_temp, room_temp, i - 1), room_temp)

\* ------------------------------------------------------- sim_temp_change
\* meat_temp.py: for i in range(T.shape[0]): if abs(T[i] - room_temp) < 1:
\* time_to_cool = t[i]; break.  T is integrated toward room_temp_target.
RECURSIVE MeatTemp_scan(_, _, _, _)
MeatTemp_scan(init_temp, room_temp, room_temp_target, i) ==
    IF i >= SimSteps THEN None
    ELSE IF Abs(odeint(init_temp, room_temp_target, i) - room_temp) < MeatTemp_TOL
         THEN Time(t("MeatTemp", i))
         ELSE MeatTemp_scan(init_temp, room_temp, room_temp_target, i + 1)

MeatTemp_sim_temp_change(init_temp, room_temp, room_temp_target) ==
    [init_temp |-> init_temp, room_temp |-> room_temp,
     time_to_cool |-> MeatTemp_scan(init_temp, room_temp, room_temp_target, 0)]

\* thaw_master.py: the same scan with abs(T[i] - room_temp) <= 0.01, on a
\* trajectory integrated toward room_temp.
RECURSIVE ThawMaster_scan(_, _, _)
ThawMaster_scan(init_temp, room_temp, i) ==
    IF i >= SimSteps THEN None
    ELSE IF Abs(odeint(init_temp, room_temp, i) - room_temp) <= ThawMaster_TOL
         THEN Time(t("ThawMaster", i))
         ELSE ThawMaster_scan(init_temp, room_temp, i + 1)

\* thaw_master.py: if time_to_cool is None: time_to_cool = np.nan
ThawMaster_sim_temp_change(init_temp, room_temp) ==
    LET time_to_cool == ThawMaster_scan(init_temp, room_temp, 0)
    IN [init_temp |-> init_temp, room_temp |-> room_temp,
        time_to_cool |-> IF time_to_cool = None THEN NaN ELSE time_to_cool]

\* ------------------------------------------------------------- numpy
\* np.meshgrid(init_temps, room_temps): two grids of shape
\* (len(room_temps), len(init_temps)); init_temps varies along the columns,
\* room_temps along the rows.
meshgrid(xs, ys) ==
    [init_grid |-> [i \in 0..(len(ys) - 1) |-> [j \in 0..(len(xs) - 1) |-> xs[j]]],
     room_grid |-> [i \in 0..(len(ys) - 1) |-> [j \in 0..(len(xs) - 1) |-> ys[i]]]]

\* grid.shape
shape(grid) == <<len(grid), len(grid[0])>>

\* grid.ravel(): row-major flattening
ravel(grid) ==
    [n \in 0..(shape(grid)[1] * shape(grid)[2] - 1) |->
        grid[n \div shape(grid)[2]][n % shape(grid)[2]]]

\* np.unravel_index(n, shp) in column-major order (order='F').
unravel_index_F(n, shp) == <<n % shp[1], n \div shp[1]>>

\* np.unravel_index(n, shp): row-major
unravel_index(n, shp) == <<n \div shp[2], n % shp[2]>>

\* np.zeros_like(grid)
zeros_like(grid) ==
    [i \in DOMAIN grid |-> [j \in DOMAIN grid[i] |-> Time(0)]]

\* A float64 array cell that drops a missing value: None stored as 0.0.
NoneAsZero(v) == IF v.kind = "None" THEN Time(0) ELSE v

\* time_grid[row, col] = time_to_cool: what a float64 array cell holds after
\* the assignment; numpy stores None as nan.
AsFloat64(v) == IF v.kind = "None" THEN NaN ELSE v

\* ------------------------------------------------ multiprocessing.Pool
\* A pool with one process per CPU (Pool() without an argument).
PoolSizeAllCpus(cpus) == cpus

\* multiprocessing.Pool(processes=(multiprocessing.cpu_count() - 1))
PoolSize(cpus) == cpus - 1

\* starmap's default chunksize: divmod(len(iterable), len(pool) * 4),
\* rounded up.
chunksize(length, nproc) ==
    (length \div (nproc * 4)) + (IF length % (nproc * 4) # 0 THEN 1 ELSE 0)

\* The number of task batches starmap puts on the pool's task queue.
NumChunks(length, nproc) ==
    (length \div chunksize(length, nproc))
        + (IF length % chunksize(length, nproc) # 0 THEN 1 ELSE 0)

VARIABLES
    variant,        \* which program runs: MeatTemp or ThawMaster
    cpu_count,      \* multiprocessing.cpu_count()
    init_temps,     \* perform_simulation's first argument
    room_temps,     \* perform_simulation's second argument
    pc,             \* the coordinating process: start, pool, mapping,
                    \* writing, returned, failed
    error,          \* the exception that left perform_simulation, or "none"
    init_grid,
    room_grid,
    processes,      \* the pool's size (0: no pool yet)
    temp_tuples,    \* the flat work list
    next_task,      \* the next task batch on the pool's FIFO task queue
    worker,         \* worker process -> the batch it runs, or Idle
    value,          \* starmap's result list: None until a batch fills it
    number_left,    \* batches starmap still waits for
    success,        \* FALSE once a batch came back with an exception
    results,        \* what pool.starmap returned
    time_grid,
    cell_src,       \* history: the (init_temp, room_temp) of the triple
                    \* written to each cell
    i,              \* the write loop's index
    crashed,        \* history: a worker process died while running a batch
    faults,         \* history: batches that raised or died so far
    out_of_order    \* history: a batch finished before an earlier one

sweep_vars == <<variant, cpu_count, init_temps, room_temps, pc, error,
                init_grid, room_grid, processes, temp_tuples, next_task,
                worker, value, number_left, success, results, time_grid,
                cell_src, i, crashed, faults, out_of_order>>

\* BashAI (bai.py, bashai.py): the state of one run of main().
VARIABLES
    program,        \* which script runs: bai or bashai
    argv_len,       \* len(sys.argv)
    key_env,        \* the environment's OPENAI_API_KEY_BASHAI ("": not set)
    main_pc,        \* where main() is
    api_key,        \* main's api_key
    result,         \* what process_response returned
    command,        \* print_response's return value, then run_command's local
    printed,        \* history: the commands print_response has printed
    answers,        \* history: what the user typed at the input() prompts
    executed        \* history: the strings passed to subprocess.run

bashai_vars == <<program, argv_len, key_env, main_pc, api_key, result, command,
                 printed, answers, executed>>

\* wrap_string(s, width): its arguments and locals.
VARIABLES
    s,
    width,
    wrap_pc,        \* where wrap_string is
    paragraphs,     \* the part of s.split("\n") the for loop has not reached
    paragraph,
    lines

wrap_vars == <<s, width, wrap_pc, paragraphs, paragraph, lines>>

vars == <<sweep_vars, bashai_vars, wrap_vars>>

\* No BashAI run in progress.
BashAIOff ==
    /\ program = "none"
    /\ argv_len = 0
    /\ key_env = ""
    /\ main_pc = "off"
    /\ api_key = ""
    /\ result = <<>>
    /\ command = ""
    /\ printed = <<>>
    /\ answers = <<>>
    /\ executed = <<>>

\* No wrap_string call in progress.
WrapOff ==
    /\ s = <<>>
    /\ width = 0
    /\ wrap_pc = "off"
    /\ paragraphs = <<>>
    /\ paragraph = <<>>
    /\ lines = <<>>

\* No sweep in progress.
SweepOff ==
    /\ variant = "none"
    /\ cpu_count = 0
    /\ init_temps = <<>>
    /\ room_temps = <<>>
    /\ pc = "off"
    /\ error = "none"
    /\ init_grid = <<>>
    /\ room_grid = <<>>
    /\ processes = 0
    /\ temp_tuples = <<>>
    /\ next_task = 0
    /\ worker = <<>>
    /\ value = <<>>
    /\ number_left = 0
    /\ success = TRUE
    /\ results = <<>>
    /\ time_grid = <<>>
    /\ cell_src = <<>>
    /\ i = 0
    /\ crashed = FALSE
    /\ faults = 0
    /\ out_of_order = FALSE

Idle == -1

\* The slot of starmap's result list that unit k of batch c fills, when
\* results are kept in the order the batches come back.
ResultSlotByArrival(c, k) ==
    ((NumChunks(len(temp_tuples), processes) - number_left)
        * chunksize(len(temp_tuples), processes)) + k

\* MapResult._set: self._value[i*chunksize:(i+1)*chunksize] = result
ResultSlot(c, k) == (c * chunksize(len(temp_tuples), processes)) + k

\* A map that is ready as soon as at most one batch is outstanding.
MapReadyEarly == number_left <= 1

\* MapResult is ready (starmap's get() returns or raises) only once all
\* batches are back.
MapReady == number_left = 0

\* The flat indices of batch c.
ChunkUnits(c) ==
    {n \in DOMAIN temp_tuples :
        n \div chunksize(len(temp_tuples), processes) = c}

\* func(*args) of starmap for one work tuple.
sim_temp_change(args) ==
    IF variant = "MeatTemp"
    THEN MeatTemp_sim_temp_change(args[1], args[2], args[3])
    ELSE ThawMaster_sim_temp_change(args[1], args[2])

\* Strictly increasing arrays (as np.linspace builds them) of n candidates.
Coordinates(n) ==
    {a \in [0..(n - 1) -> Temps] :
        \A x, y \in 0..(n - 1) : x < y => a[x] < a[y]}

Init ==
    /\ variant \in Variants
    /\ cpu_count \in 1..MaxCpu
    /\ \E n \in 1..MaxLen : init_temps \in Coordinates(n)
    /\ \E m \in 1..MaxLen : room_temps \in Coordinates(m)
    /\ pc = "start"
    /\ error = "none"
    /\ init_grid = <<>>
    /\ room_grid = <<>>
    /\ processes = 0
    /\ temp_tuples = <<>>
    /\ next_task = 0
    /\ worker = <<>>
    /\ value = <<>>
    /\ number_left = 0
    /\ success = TRUE
    /\ results = <<>>
    /\ time_grid = <<>>
    /\ cell_src = <<>>
    /\ i = 0
    /\ crashed = FALSE
    /\ faults = 0
    /\ out_of_order = FALSE
    /\ BashAIOff
    /\ WrapOff

\* init_grid, room_grid = np.meshgrid(init_temps, room_temps)
MakeGrid ==
    /\ pc = "start"
    /\ init_grid' = meshgrid(init_temps, room_temps).init_grid
    /\ room_grid' = meshgrid(init_temps, room_temps).room_grid
    /\ pc' = "pool"
    /\ UNCHANGED <<variant, cpu_count, init_temps, room_temps, error,
                   processes, temp_tuples, next_task, worker, value,
                   number_left, success, results, time_grid, cell_src, i,
                   crashed, out_of_order>>
    /\ UNCHANGED faults
    /\ UNCHANGED <<bashai_vars, wrap_vars>>

\* Pool(processes=n) with n < 1 raises ValueError("Number of processes must
\* be at least 1"); perform_simulation does not catch it.
PoolInvalid ==
    /\ pc = "pool"
    /\ PoolSize(cpu_count) < 1
    /\ pc' = "failed"
    /\ error' = "ValueError"
    /\ UNCHANGED <<variant, cpu_count, init_temps, room_temps, init_grid,
                   room_grid, processes, temp_tuples, next_task, worker,
                   value, number_left, success, results, time_grid,
                   cell_src, i, crashed, out_of_order>>
    /\ UNCHANGED faults
    /\ UNCHANGED <<bashai_vars, wrap_vars>>

\* The pool is created, temp_tuples is built from the two raveled grids and
\* pool.starmap puts its task batches on the queue; the caller then blocks.
Dispatch ==
    /\ pc = "pool"
    /\ PoolSize(cpu_count) >= 1
    /\ processes' = PoolSize(cpu_count)
    /\ worker' = [w \in 1..PoolSize(cpu_count) |-> Idle]
    /\ temp_tuples' =
          [n \in DOMAIN ravel(init_grid) |->
              IF variant = "MeatTemp"
              THEN <<ravel(init_grid)[n], ravel(room_grid)[n], ROOM_TEMP>>
              ELSE <<ravel(init_grid)[n], ravel(room_grid)[n]>>]
    /\ value' = [n \in DOMAIN ravel(init_grid) |-> None]
    /\ number_left' = NumChunks(len(ravel(init_grid)), PoolSize(cpu_count))
    /\ next_task' = 0
    /\ success' = TRUE
    /\ pc' = "mapping"
    /\ UNCHANGED <<variant, cpu_count, init_temps, room_temps, error,
                   init_grid, room_grid, results, time_grid, cell_src, i,
                   crashed, out_of_order>>
    /\ UNCHANGED faults
    /\ UNCHANGED <<bashai_vars, wrap_vars>>

\* An idle worker process takes the next batch from the task queue.
TakeTask(w) ==
    /\ pc = "mapping"
    /\ worker[w] = Idle
    /\ next_task < NumChunks(len(temp_tuples), processes)
    /\ worker' = [worker EXCEPT ![w] = next_task]
    /\ next_task' = next_task + 1
    /\ UNCHANGED <<variant, cpu_count, init_temps, room_temps, pc, error,
                   init_grid, room_grid, processes, temp_tuples, value,
                   number_left, success, results, time_grid, cell_src, i,
                   crashed, out_of_order>>
    /\ UNCHANGED faults
    /\ UNCHANGED <<bashai_vars, wrap_vars>>

\* Some batch before batch c is not back yet.
EarlierOutstanding(c) ==
    \E w \in DOMAIN worker : worker[w] # Idle /\ worker[w] < c

\* The result list after batch c's results are stored.
StoreBatch(c) ==
    [n \in DOMAIN value |->
        IF \E u \in ChunkUnits(c) :
              ResultSlot(c, u % chunksize(len(temp_tuples), processes)) = n
        THEN sim_temp_change(temp_tuples[
                CHOOSE u \in ChunkUnits(c) :
                    ResultSlot(c, u % chunksize(len(temp_tuples), processes)) = n])
        ELSE value[n]]

\* The worker ran sim_temp_change on every tuple of its batch; the result
\* handler stores the batch's results (unless an earlier batch failed).
FinishTask(w) ==
    /\ pc = "mapping"
    /\ worker[w] # Idle
    /\ value' = IF success THEN StoreBatch(worker[w]) ELSE value
    /\ number_left' = number_left - 1
    /\ worker' = [worker EXCEPT ![w] = Idle]
    /\ out_of_order' = (out_of_order \/ EarlierOutstanding(worker[w]))
    /\ UNCHANGED <<variant, cpu_count, init_temps, room_temps, pc, error,
                   init_grid, room_grid, processes, temp_tuples, next_task,
                   success, results, time_grid, cell_src, i, crashed>>
    /\ UNCHANGED faults
    /\ UNCHANGED <<bashai_vars, wrap_vars>>

\* A unit of the worker's batch raised: the batch comes back as a failure,
\* and the map keeps the first exception instead of a result list.
RaiseInTask(w) ==
    /\ pc = "mapping"
    /\ worker[w] # Idle
    /\ faults < MaxFaults
    /\ faults' = faults + 1
    /\ success' = FALSE
    /\ number_left' = number_left - 1
    /\ worker' = [worker EXCEPT ![w] = Idle]
    /\ UNCHANGED <<variant, cpu_count, init_temps, room_temps, pc, error,
                   init_grid, room_grid, processes, temp_tuples, next_task,
                   value, results, time_grid, cell_src, i, crashed,
                   out_of_order>>
    /\ UNCHANGED <<bashai_vars, wrap_vars>>

\* The worker process died while running its batch.  The pool replaces the
\* process, but the batch it held is neither re-queued nor reported.
CrashWorker(w) ==
    /\ pc = "mapping"
    /\ worker[w] # Idle
    /\ faults < MaxFaults
    /\ faults' = faults + 1
    /\ worker' = [worker EXCEPT ![w] = Idle]
    /\ crashed' = TRUE
    /\ UNCHANGED <<variant, cpu_count, init_temps, room_temps, pc, error,
                   init_grid, room_grid, processes, temp_tuples, next_task,
                   value, number_left, success, results, time_grid,
                   cell_src, i, out_of_order>>
    /\ UNCHANGED <<bashai_vars, wrap_vars>>

\* pool.starmap returns the result list; time_grid = np.zeros_like(init_grid)
JoinOk ==
    /\ pc = "mapping"
    /\ MapReady
    /\ success
    /\ results' = value
    /\ time_grid' = zeros_like(init_grid)
    /\ cell_src' = [r \in DOMAIN init_grid |-> [c \in DOMAIN init_grid[r] |-> <<>>]]
    /\ i' = 0
    /\ pc' = "writing"
    /\ UNCHANGED <<variant, cpu_count, init_temps, room_temps, error,
                   init_grid, room_grid, processes, temp_tuples, next_task,
                   worker, value, number_left, success, crashed,
                   out_of_order>>
    /\ UNCHANGED faults
    /\ UNCHANGED <<bashai_vars, wrap_vars>>

\* pool.starmap re-raises the stored exception; perform_simulation has no
\* handler, so the exception leaves it.
JoinRaise ==
    /\ pc = "mapping"
    /\ MapReady
    /\ ~success
    /\ pc' = "failed"
    /\ error' = "Exception"
    /\ UNCHANGED <<variant, cpu_count, init_temps, room_temps, init_grid,
                   room_grid, processes, temp_tuples, next_task, worker,
                   value, number_left, success, results, time_grid,
                   cell_src, i, crashed, out_of_order>>
    /\ UNCHANGED faults
    /\ UNCHANGED <<bashai_vars, wrap_vars>>

\* One pass of: for i, (init_temp, room_temp, time_to_cool) in
\* enumerate(results): row, col = np.unravel_index(i, init_grid.shape);
\* time_grid[row, col] = time_to_cool.  Unpacking a None entry raises.
WriteCell ==
    /\ pc = "writing"
    /\ i < len(results)
    /\ IF results[i] = None
       THEN /\ pc' = "failed"
            /\ error' = "TypeError"
            /\ UNCHANGED <<time_grid, cell_src, i>>
       ELSE LET rc == unravel_index(i, shape(init_grid))
            IN /\ time_grid' = [time_grid EXCEPT ![rc[1]][rc[2]] =
                                   AsFloat64(results[i].time_to_cool)]
               /\ cell_src' = [cell_src EXCEPT ![rc[1]][rc[2]] =
                                   <<results[i].init_temp, results[i].room_temp>>]
               /\ i' = i + 1
               /\ UNCHANGED <<pc, error>>
    /\ UNCHANGED <<variant, cpu_count, init_temps, room_temps, init_grid,
                   room_grid, processes, temp_tuples, next_task, worker,
                   value, number_left, success, results, crashed,
                   out_of_order>>
    /\ UNCHANGED faults
    /\ UNCHANGED <<bashai_vars, wrap_vars>>

\* return time_grid
Return ==
    /\ pc = "writing"
    /\ i = len(results)
    /\ pc' = "returned"
    /\ UNCHANGED <<variant, cpu_count, init_temps, room_temps, error,
                   init_grid, room_grid, processes, temp_tuples, next_task,
                   worker, value, number_left, success, results, time_grid,
                   cell_src, i, crashed, out_of_order>>
    /\ UNCHANGED faults
    /\ UNCHANGED <<bashai_vars, wrap_vars>>

Next ==
    \/ MakeGrid
    \/ PoolInvalid
    \/ Dispatch
    \/ \E w \in DOMAIN worker : TakeTask(w)
    \/ \E w \in DOMAIN worker : FinishTask(w)
    \/ \E w \in DOMAIN worker : RaiseInTask(w)
    \/ \E w \in DOMAIN worker : CrashWorker(w)
    \/ JoinOk
    \/ JoinRaise
    \/ WriteCell
    \/ Return

Spec == Init /\ [][Next]_vars

\* ------------------------------------------------------ meat_temp.py main
\* meat_temp.py main: np.linspace(0, 10, 100)
MeatTemp_INIT_TEMP_H == 1000
\* meat_temp.py main: np.linspace(15, 25, 100)
MeatTemp_ROOM_TEMP_L == 1500
MeatTemp_ROOM_TEMP_H == 2500

\* meat_temp.py's main(): init_temps = np.linspace(0, 10, num) and
\* room_temps = np.linspace(15, 25, num) handed to perform_simulation (num
\* is 100 in the source).
MainInit ==
    /\ variant = "MeatTemp"
    /\ cpu_count \in 1..MaxCpu
    /\ \E num \in 2..MaxLen :
          /\ init_temps = [n \in 0..(num - 1) |->
                              linspace(MeatTemp_INIT_TEMP_H, num, n)]
          /\ room_temps = [n \in 0..(num - 1) |->
                              MeatTemp_ROOM_TEMP_L
                                + linspace(MeatTemp_ROOM_TEMP_H - MeatTemp_ROOM_TEMP_L,
                                           num, n)]
    /\ pc = "start"
    /\ error = "none"
    /\ init_grid = <<>>
    /\ room_grid = <<>>
    /\ processes = 0
    /\ temp_tuples = <<>>
    /\ next_task = 0
    /\ worker = <<>>
    /\ value = <<>>
    /\ number_left = 0
    /\ success = TRUE
    /\ results = <<>>
    /\ time_grid = <<>>
    /\ cell_src = <<>>
    /\ i = 0
    /\ crashed = FALSE
    /\ faults = 0
    /\ out_of_order = FALSE
    /\ BashAIOff
    /\ WrapOff

MainSpec == MainInit /\ [][Next]_vars

\* ----------------------------------------------------------------- BashAI
\* Most command line arguments considered (len(sys.argv) is at most this).
MaxArgv == 3

\* What the user may type at an input() prompt.
Answers == {"y", "Y", "yes", "Yes", "YES", "n", "N", "", " y"}

\* str.lower() on the answers above.
lower(str) ==
    CASE str = "Y" -> "y"
      [] str = "N" -> "n"
      [] str = "Yes" -> "yes"
      [] str = "YES" -> "yes"
      [] OTHER -> str

\* answer.lower() in ('y', 'yes')
IsYes(answer) == lower(answer) \in {"y", "yes"}

\* The texts the model may answer with (response.choices[0].message.content):
\* text that is no JSON, a JSON array, or a JSON object with any subset of
\* the three keys; a value may be the empty string.
Contents ==
    {[json |-> "invalid", fields |-> <<>>], [json |-> "array", fields |-> <<>>]}
    \cup
    {[json |-> "object", fields |-> f] :
        f \in UNION {[K -> {"", "ls -l"}] :
                        K \in SUBSET {"Explanation", "Command", "Notes"}}}

\* dict.get(key, default)
get(dict, key, default) == IF key \in DOMAIN dict THEN dict[key] ELSE default

\* A test that rejects a response only when both parts are missing.
ResponseMissingBoth(explanation, cmd) == explanation = "" /\ cmd = ""

\* print_response: if not explanation or not command
ResponseIncomplete(explanation, cmd) == explanation = "" \/ cmd = ""

BashAIInit ==
    /\ program \in {"bai", "bashai"}
    /\ argv_len \in 1..MaxArgv
    /\ key_env \in {"", "sk-test"}
    /\ main_pc = "validate_arguments"
    /\ api_key = ""
    /\ result = <<>>
    /\ command = ""
    /\ printed = <<>>
    /\ answers = <<>>
    /\ executed = <<>>
    /\ SweepOff
    /\ WrapOff

\* validate_arguments(): if len(sys.argv) != 2: sys.exit(1)
ValidateArguments ==
    /\ main_pc = "validate_arguments"
    /\ main_pc' = IF argv_len # 2 THEN "exit" ELSE "get_api_key"
    /\ UNCHANGED <<program, argv_len, key_env, api_key, result, command,
                   printed, answers, executed>>
    /\ UNCHANGED <<sweep_vars, wrap_vars>>

\* api_key = get_api_key(): os.getenv(...); if not api_key: sys.exit(1).
\* bai.py then calls get_system_info(), bashai.py goes on to the API call.
GetApiKey ==
    /\ main_pc = "get_api_key"
    /\ IF key_env = ""
       THEN /\ main_pc' = "exit"
            /\ UNCHANGED api_key
       ELSE /\ api_key' = key_env
            /\ main_pc' = IF program = "bai" THEN "get_system_info"
                          ELSE "call_openai_api"
    /\ UNCHANGED <<program, argv_len, key_env, result, command, printed,
                   answers, executed>>
    /\ UNCHANGED <<sweep_vars, wrap_vars>>

\* bai.py: system_info = get_system_info(); if not system_info: sys.exit(1).
\* get_system_info returns None when uname or cat fails.
GetSystemInfo ==
    /\ main_pc = "get_system_info"
    /\ \E failed \in BOOLEAN :
          main_pc' = IF failed THEN "exit" ELSE "call_openai_api"
    /\ UNCHANGED <<program, argv_len, key_env, api_key, result, command,
                   printed, answers, executed>>
    /\ UNCHANGED <<sweep_vars, wrap_vars>>

\* response = call_openai_api(...) fails: except Exception: sys.exit(1)
CallOpenaiApiFails ==
    /\ main_pc = "call_openai_api"
    /\ main_pc' = "exit"
    /\ UNCHANGED <<program, argv_len, key_env, api_key, result, command,
                   printed, answers, executed>>
    /\ UNCHANGED <<sweep_vars, wrap_vars>>

\* response = call_openai_api(...); result = process_response(response):
\* json.loads of the content; on JSONDecodeError sys.exit(1).
ProcessResponse ==
    /\ main_pc = "call_openai_api"
    /\ \E content \in Contents :
          IF content.json = "invalid"
          THEN /\ main_pc' = "exit"
               /\ UNCHANGED result
          ELSE /\ result' = content
               /\ main_pc' = "print_response"
    /\ UNCHANGED <<program, argv_len, key_env, api_key, command, printed,
                   answers, executed>>
    /\ UNCHANGED <<sweep_vars, wrap_vars>>

\* command = print_response(result): result.get raises AttributeError on a
\* value that is no dict; an empty explanation or command exits; otherwise
\* the command is printed and returned.
PrintResponse ==
    /\ main_pc = "print_response"
    /\ IF result.json # "object"
       THEN /\ main_pc' = "raised"
            /\ UNCHANGED <<command, printed>>
       ELSE IF ResponseIncomplete(get(result.fields, "Explanation", ""),
                                  get(result.fields, "Command", ""))
            THEN /\ main_pc' = "exit"
                 /\ UNCHANGED <<command, printed>>
            ELSE /\ printed' = Append(printed, get(result.fields, "Command", ""))
                 /\ command' = get(result.fields, "Command", "")
                 /\ main_pc' = "run_command"
    /\ UNCHANGED <<program, argv_len, key_env, api_key, result, answers,
                   executed>>
    /\ UNCHANGED <<sweep_vars, wrap_vars>>

\* run_command: run_command = input("Do you want to run this command?");
\* if run_command.lower() in ('y', 'yes'): ...
AskRun ==
    /\ main_pc = "run_command"
    /\ \E answer \in Answers :
          /\ answers' = Append(answers, answer)
          /\ main_pc' = IF IsYes(answer) THEN "use_sudo" ELSE "done"
    /\ UNCHANGED <<program, argv_len, key_env, api_key, result, command,
                   printed, executed>>
    /\ UNCHANGED <<sweep_vars, wrap_vars>>

\* use_sudo = input("Do you want to use sudo?");
\* if use_sudo.lower() in ('y', 'yes'): command = "sudo " + command
AskSudo ==
    /\ main_pc = "use_sudo"
    /\ \E answer \in Answers :
          /\ answers' = Append(answers, answer)
          /\ command' = IF IsYes(answer) THEN "sudo " \o command ELSE command
    /\ main_pc' = "subprocess_run"
    /\ UNCHANGED <<program, argv_len, key_env, api_key, result, printed,
                   executed>>
    /\ UNCHANGED <<sweep_vars, wrap_vars>>

\* subprocess.run(command, shell=True)
SubprocessRun ==
    /\ main_pc = "subprocess_run"
    /\ executed' = Append(executed, command)
    /\ main_pc' = "done"
    /\ UNCHANGED <<program, argv_len, key_env, api_key, result, command,
                   printed, answers>>
    /\ UNCHANGED <<sweep_vars, wrap_vars>>

BashAINext ==
    \/ ValidateArguments
    \/ GetApiKey
    \/ GetSystemInfo
    \/ CallOpenaiApiFails
    \/ ProcessResponse
    \/ PrintResponse
    \/ AskRun
    \/ AskSudo
    \/ SubprocessRun

BashAISpec == BashAIInit /\ [][BashAINext]_vars

\* ------------------------------------------------------------ wrap_string
\* Longest string and largest width considered.
MaxStr == 4
MaxWidth == 2

\* The characters a string is made of; a string is a sequence of them.
Chars == {"a", "b", " ", "\n"}

RECURSIVE Strings(_)
Strings(n) ==
    IF n = 0 THEN {<<>>}
    ELSE Strings(n - 1) \cup {Append(str, ch) : str \in Strings(n - 1), ch \in Chars}

\* str[a:b] with 0 <= a (Python slice, 0-based, b exclusive and clipped).
Slice(str, a, b) == SubSeq(str, a + 1, IF b < Len(str) THEN b ELSE Len(str))

\* str.find(ch): lowest 0-based index of ch in str, -1 if there is none.
find(str, ch) ==
    IF \E k \in 1..Len(str) : str[k] = ch
    THEN (CHOOSE k \in 1..Len(str) :
             /\ str[k] = ch
             /\ \A j \in 1..(k - 1) : str[j] # ch) - 1
    ELSE -1

\* str.split(sep) for a one-character separator.
RECURSIVE split(_, _)
split(str, sep) ==
    IF find(str, sep) = -1 THEN <<str>>
    ELSE <<Slice(str, 0, find(str, sep))>>
         \o split(Slice(str, find(str, sep) + 1, Len(str)), sep)

\* str.rfind(ch, start, end): highest 0-based index in [start, end) clipped
\* to the string at which ch stands, -1 if there is none.
rfind(str, ch, start, end) ==
    LET last == IF end < Len(str) THEN end ELSE Len(str)
        hits == {k \in start..(last - 1) : str[k + 1] = ch}
    IN  IF hits = {} THEN -1
        ELSE CHOOSE k \in hits : \A j \in hits : j <= k

\* if pos <= 0: pos = width
BreakPos(found, w) == IF found <= 0 THEN w ELSE found

WrapInit ==
    /\ s \in Strings(MaxStr)
    /\ width \in 1..MaxWidth
    /\ wrap_pc = "split"
    /\ paragraphs = <<>>
    /\ paragraph = <<>>
    /\ lines = <<>>
    /\ SweepOff
    /\ BashAIOff

\* lines = []; s.split("\n")
Split ==
    /\ wrap_pc = "split"
    /\ paragraphs' = split(s, "\n")
    /\ wrap_pc' = "for"
    /\ UNCHANGED <<s, width, paragraph, lines>>
    /\ UNCHANGED <<sweep_vars, bashai_vars>>

\* for paragraph in s.split("\n"): the next paragraph
NextParagraph ==
    /\ wrap_pc = "for"
    /\ paragraphs # <<>>
    /\ paragraph' = Head(paragraphs)
    /\ paragraphs' = Tail(paragraphs)
    /\ wrap_pc' = "while"
    /\ UNCHANGED <<s, width, lines>>
    /\ UNCHANGED <<sweep_vars, bashai_vars>>

\* One turn of while len(paragraph) > width: break at the last space within
\* the first width + 1 characters, or at width; keep paragraph[:pos] as a
\* line and go on with paragraph[pos+1:].
BreakLine ==
    /\ wrap_pc = "while"
    /\ Len(paragraph) > width
    /\ LET pos == BreakPos(rfind(paragraph, " ", 0, width + 1), width)
       IN  /\ lines' = Append(lines, Slice(paragraph, 0, pos))
           /\ paragraph' = Slice(paragraph, pos + 1, Len(paragraph))
    /\ UNCHANGED <<s, width, wrap_pc, paragraphs>>
    /\ UNCHANGED <<sweep_vars, bashai_vars>>

\* The loop ends: lines.append(paragraph)
AppendRest ==
    /\ wrap_pc = "while"
    /\ Len(paragraph) <= width
    /\ lines' = Append(lines, paragraph)
    /\ wrap_pc' = "for"
    /\ UNCHANGED <<s, width, paragraphs, paragraph>>
    /\ UNCHANGED <<sweep_vars, bashai_vars>>

\* return lines
WrapReturn ==
    /\ wrap_pc = "for"
    /\ paragraphs = <<>>
    /\ wrap_pc' = "returned"
    /\ UNCHANGED <<s, width, paragraphs, paragraph, lines>>
    /\ UNCHANGED <<sweep_vars, bashai_vars>>

WrapNext ==
    \/ Split
    \/ NextParagraph
    \/ BreakLine
    \/ AppendRest
    \/ WrapReturn

WrapSpec == WrapInit /\ [][WrapNext]_vars

\* ================================================================ claims

\* The tolerance the variant compares against (1 degree, 0.01 degree).
Tol(v) == IF v = "MeatTemp" THEN MeatTemp_TOL ELSE ThawMaster_TOL

\* The variant's own comparison of a distance with its tolerance.
Within(v, d) ==
    IF v = "MeatTemp" THEN Abs(d) < MeatTemp_TOL ELSE Abs(d) <= ThawMaster_TOL

Samples == 0..(SimSteps - 1)

Min(S) == CHOOSE x \in S : \A y \in S : x <= y

\* The target the variant's trajectory for (init_temp, room_temp) is
\* integrated toward.
TrajectoryTarget(v, room_temp) == IF v = "MeatTemp" THEN ROOM_TEMP ELSE room_temp

\* The slots of the result list that hold the triple of a finished call.
Finished == {n \in DOMAIN value : value[n] # None}

Rows == 0..(len(room_temps) - 1)
Cols == 0..(len(init_temps) - 1)

\* No sample of the variant's trajectory from a is within tolerance of b.
NeverWithin(a, b) ==
    \A m \in Samples :
        Abs(odeint(a, TrajectoryTarget(variant, b), m) - b) > Tol(variant)

NumBusy == Cardinality({w \in DOMAIN worker : worker[w] # Idle})

\* C1: in the returned grid, cell (row, col) is the detection result on the
\* trajectory that starts at init_temps[col] and is integrated toward
\* room_temps[row], with the distance measured against room_temps[row].
C1_CellUsesOwnTarget ==
    pc = "returned" =>
        \A r \in Rows, c \in Cols :
            LET hits == {m \in Samples :
                            Within(variant,
                                   odeint(init_temps[c], room_temps[r], m)
                                       - room_temps[r])}
            IN time_grid[r][c] =
                  (IF hits = {} THEN NaN ELSE Time(t(variant, Min(hits))))

\* C2: every triple (init_temp, room_temp, time) is written at a cell
\* (row, col) with init_temp = init_grid[row, col] = init_temps[col] and
\* room_temp = room_grid[row, col] = room_temps[row], and the n-th pass of
\* the write loop has written n cells.
C2_IndexOrder ==
    pc \in {"writing", "returned"} =>
        /\ \A r \in Rows, c \in Cols :
              cell_src[r][c] # <<>> =>
                 /\ cell_src[r][c] = <<init_grid[r][c], room_grid[r][c]>>
                 /\ cell_src[r][c] = <<init_temps[c], room_temps[r]>>
        /\ Cardinality({rc \in Rows \X Cols : cell_src[rc[1]][rc[2]] # <<>>}) = i

C2_Witness ==
    /\ pc = "returned"
    /\ len(init_temps) = 2
    /\ len(room_temps) = 2
    /\ \A r \in Rows, c \in Cols : cell_src[r][c] # <<>>

\* C3: the returned grid is the grid a sequential evaluation of the two
\* coordinate sequences gives, whatever the pool size, whichever worker ran
\* which batch and in whatever order the batches came back.
C3_GridIsFunctionOfInputs ==
    pc = "returned" =>
        time_grid =
            [r \in Rows |-> [c \in Cols |->
                LET out == IF variant = "MeatTemp"
                           THEN MeatTemp_sim_temp_change(
                                    init_temps[c], room_temps[r], ROOM_TEMP)
                           ELSE ThawMaster_sim_temp_change(
                                    init_temps[c], room_temps[r])
                IN IF out.time_to_cool.kind = "float"
                   THEN out.time_to_cool ELSE NaN]]

C3_Witness ==
    /\ pc = "returned"
    /\ out_of_order
    /\ processes >= 2
    /\ \E r \in Rows, c \in Cols : time_grid[r][c] # time_grid[0][0]

\* C4: time_grid changes only in a step of the coordinating process that is
\* taken when every dispatched batch is back and no worker is running, and
\* the grid is returned only after all its cells have been written.
C4_ForkJoinBarrier ==
    /\ [][time_grid' # time_grid =>
            /\ pc \in {"mapping", "writing"}
            /\ pc' = "writing"
            /\ number_left = 0
            /\ next_task = NumChunks(len(temp_tuples), processes)
            /\ \A w \in DOMAIN worker : worker[w] = Idle
            /\ \A n \in DOMAIN value : value[n] # None
            /\ worker' = worker
            /\ value' = value]_vars
    /\ [](pc = "returned" =>
            /\ i = len(init_temps) * len(room_temps)
            /\ \A r \in Rows, c \in Cols : cell_src[r][c] # <<>>)

C4_Witness ==
    /\ pc = "returned"
    /\ processes = 2
    /\ len(init_temps) * len(room_temps) = 4

\* C5: a finished call returns t[m] for the smallest sample index m with
\* |T[m] - room_temp| <= tolerance, a distance equal to the tolerance
\* counting as reached.
C5_FirstSampleInclusive ==
    \A n \in Finished :
        LET hits == {m \in Samples :
                        Abs(odeint(value[n].init_temp,
                                   TrajectoryTarget(variant, value[n].room_temp), m)
                              - value[n].room_temp) <= Tol(variant)}
        IN hits # {} => value[n].time_to_cool = Time(t(variant, Min(hits)))

\* C6: when no sample of a call's trajectory is within tolerance of
\* room_temp, the call returns a sentinel that is no float time, and the
\* grid cell written from it is NaN: not 0 and not any sample time.
C6_NotReachedSentinel ==
    /\ \A n \in Finished :
          NeverWithin(value[n].init_temp, value[n].room_temp) =>
              value[n].time_to_cool \in {None, NaN}
    /\ pc \in {"writing", "returned"} =>
          \A r \in Rows, c \in Cols :
              (cell_src[r][c] # <<>>
                  /\ NeverWithin(cell_src[r][c][1], cell_src[r][c][2])) =>
                      /\ time_grid[r][c] = NaN
                      /\ time_grid[r][c] # Time(0)
                      /\ \A m \in Samples : time_grid[r][c] # Time(t(variant, m))

C6_Witness ==
    /\ pc = "returned"
    /\ variant = "MeatTemp"
    /\ \E n \in DOMAIN results :
          /\ NeverWithin(results[n].init_temp, results[n].room_temp)
          /\ results[n].time_to_cool = None
    /\ \E r \in Rows, c \in Cols :
          /\ NeverWithin(init_temps[c], room_temps[r])
          /\ time_grid[r][c] = NaN

\* C7: once a unit of work has raised or its worker has died, the sweep
\* returns no grid, and the failure reaches the caller: the sweep has
\* failed or can still take a step toward failing.
C7_FailureFailsSweep ==
    faults > 0 =>
        /\ pc # "returned"
        /\ (pc = "failed" \/ ENABLED Next)

\* C8: for every cpu_count >= 1, a sweep in which no unit raises and no
\* worker dies stops only by returning, with every pair evaluated.
C8_SweepReturns ==
    (faults = 0 /\ ~ENABLED Next) =>
        /\ pc = "returned"
        /\ \A n \in DOMAIN temp_tuples : results[n] # None
        /\ len(results) = len(init_temps) * len(room_temps)

\* C9: the number of batches running at once never exceeds cpu_count - 1,
\* and a pool, once created, has exactly cpu_count - 1 worker processes.
C9_PoolBound ==
    /\ NumBusy <= cpu_count - 1
    /\ DOMAIN worker = 1..processes
    /\ processes \in {0, cpu_count - 1}
    /\ pc \in {"mapping", "writing", "returned"} => processes = cpu_count - 1

C9_Witness ==
    /\ cpu_count = 3
    /\ NumBusy = 2

\* C10: a finished call whose init_temp equals the target of its trajectory,
\* or is closer to it than the tolerance, returns time 0.
C10_StartAtTargetIsZero ==
    \A n \in Finished :
        (\/ value[n].init_temp = TrajectoryTarget(variant, value[n].room_temp)
         \/ Abs(value[n].init_temp
                  - TrajectoryTarget(variant, value[n].room_temp)) < Tol(variant))
            => value[n].time_to_cool = Time(0)

\* C11: with the MeatTemp configuration (initial temperatures over [0, 10],
\* ambient temperatures over [15, 25]) the returned grid has one cell per
\* (ambient, initial) pair and every cell is a finite, non-negative time.
C11_MainGridAllFinite ==
    pc = "returned" =>
        /\ DOMAIN time_grid = Rows
        /\ \A r \in Rows :
              /\ DOMAIN time_grid[r] = Cols
              /\ \A c \in Cols :
                    /\ time_grid[r][c].kind = "float"
                    /\ time_grid[r][c].val >= 0

\* The answers that are 'y' or 'yes' in any letter case.
YesAnswers == {"y", "Y", "yes", "Yes", "YES"}

NonSpace(str) == SelectSeq(str, LAMBDA ch : ch \notin {" ", "\n"})

\* The lines one after the other.
RECURSIVE Flatten(_)
Flatten(ls) == IF ls = <<>> THEN <<>> ELSE Head(ls) \o Flatten(Tail(ls))

\* C13: wrap_string loses no text: the non-space characters of s are those
\* of the returned lines, in the same order, and no returned line is longer
\* than width.
C13_WrapLosesNoText ==
    wrap_pc = "returned" =>
        /\ NonSpace(Flatten(lines)) = NonSpace(s)
        /\ \A k \in 1..Len(lines) : Len(lines[k]) <= width

====
